---- MODULE Spec2Model ----
(***************************************************************************)
(* A model of pyGecko's plate analysis (pygecko/analysis/analysis.py) and  *)
(* of its MS peak detection (pygecko/gc_tools/peak/peak_detection_ms.py).  *)
(*                                                                         *)
(* Python values of different types are kept apart by one-field records:   *)
(* a float is [num |-> n], NaN is [nan |-> TRUE], a class label is         *)
(* [label |-> s], None is [none |-> TRUE], a local that was never assigned *)
(* is [unbound |-> TRUE].  A ratio (a float quotient) is kept exactly as   *)
(* [rnum |-> n, rden |-> d], d > 0.                                        *)
(***************************************************************************)
EXTENDS Integers, Sequences, FiniteSets, TLC

VARIABLES
    pc,            \* where the running call stands
    call,          \* the arguments of the running call
    ms_sequence,   \* MS_Sequence.injections, in iteration order
    fid_sequence,  \* FID_Sequence, sample name -> FID injection
    i,             \* injections the orchestrator's loop has processed
    loc,           \* the orchestrator's locals: analyte, product_ratio, yield_
    results_dict,  \* plate position -> well result
    log,           \* calls made to the injections' match/quantify operations
    exc,           \* the exception that ended the call, or "none"
    results_df,    \* the plate grid (pandas frame): index, columns, cells
    results_array, \* the structured array returned, or None
    pk             \* the state of a pick_peaks call

avars == <<pc, call, ms_sequence, fid_sequence, i, loc, results_dict, log, exc,
           results_df, results_array>>
vars == <<pc, call, ms_sequence, fid_sequence, i, loc, results_dict, log, exc,
          results_df, results_array, pk>>

----------------------------------------------------------------------------
(* Python values *)

None == [none |-> TRUE]
NaN == [nan |-> TRUE]
Unbound == [unbound |-> TRUE]
EmptyStr == [str |-> ""]
Num(n) == [num |-> n]
Label(s) == [label |-> s]

(* bounds of the model *)
MaxInj == 2

(* plate positions are strings, kept as sequences of characters *)
Wells == { <<"A", "1">>, <<"B", "1", "2">>, <<"C", "3">> }

Modes == {"yield", "conv", "percent"}
QuantModes == {"area", "height"}
RelativeTo == {"all", "standard"}
SubstrateIndices == {0, 1}

----------------------------------------------------------------------------
(* The collaborators of the orchestrators: layout and injections *)

\* layout.get_product(pos): the product expected in the well
get_product(pos) == [role |-> "product", well |-> pos, index |-> 0]

\* layout.get_substrate(pos, index): the index-th substrate of the well
get_substrate(pos, index) == [role |-> "substrate", well |-> pos, index |-> index]

MsPeak(rt, flag, area, height) ==
    [rt |-> rt, flag |-> flag, area |-> area, height |-> height, ri |-> 100 + rt]

\* the peak collections and match results an MS injection of an MS-only
\* plate may have: match = 0 when match_mol finds nothing, else the index of
\* the matched peak in the collection
MsProfiles ==
    { [peaks |-> << >>, match |-> 0],
      [peaks |-> << MsPeak(1, "none", 3, 1) >>, match |-> 0],
      [peaks |-> << MsPeak(1, "standard", 10, 10), MsPeak(2, "none", 1, 3) >>, match |-> 2],
      [peaks |-> << MsPeak(3, "none", 10, 3), MsPeak(4, "standard", 10, 10) >>, match |-> 1],
      [peaks |-> << MsPeak(5, "none", 3, 1) >>, match |-> 1],
      [peaks |-> << MsPeak(1, "standard", 3, 1), MsPeak(2, "none", 3, 10),
                    MsPeak(3, "standard", 10, 10) >>, match |-> 2],
      [peaks |-> << MsPeak(6, "none", 1, 1), MsPeak(7, "none", 10, 10) >>, match |-> 1] }

\* the MS injections of a cross-modality plate: one peak, matched or not
CrossMsProfiles ==
    { [peaks |-> << MsPeak(2, "none", 3, 1) >>, match |-> m] : m \in {0, 1} }

\* the FID injections: match_ri finds a peak (at rt 7) or nothing, and
\* quantify returns a percentage
Percents == {0, 30, 100}
FidProfiles ==
    { [ri_match |-> None, pct |-> 0] } \cup
    { [ri_match |-> [rt |-> 7], pct |-> q] : q \in Percents }

\* ms_injection.match_mol(analyte): the injection matches the analyte its
\* own well expects, when its profile says so
match_mol(inj, analyte) ==
    IF inj.match # 0 /\ analyte.well = inj.pos
    THEN [rt |-> inj.peaks[inj.match].rt, ri |-> inj.peaks[inj.match].ri,
          analyte |-> analyte, area |-> inj.peaks[inj.match].area,
          height |-> inj.peaks[inj.match].height]
    ELSE None

\* getattr(peak, ms_quantification_mode)
GetAttr(peak, name) == IF name = "area" THEN peak.area ELSE peak.height

RECURSIVE SumAttr(_, _)
\* sum(getattr(peak, mode) for peak in peaks)
SumAttr(peaks, name) ==
    IF peaks = << >> THEN 0
    ELSE GetAttr(Head(peaks), name) + SumAttr(Tail(peaks), name)

RECURSIVE FirstStandard(_, _)
\* the loop of lines 275-279: the attribute of the first peak flagged
\* 'standard', None when there is none
FirstStandard(peaks, name) ==
    IF peaks = << >> THEN None
    ELSE IF Head(peaks).flag = "standard" THEN Num(GetAttr(Head(peaks), name))
    ELSE FirstStandard(Tail(peaks), name)

\* product_ratio = (a / b) * 100
Ratio(a, b) == [rnum |-> a * 100, rden |-> b]

\* ratio >= t, for a ratio with a positive denominator
RatioGE(r, t) == r.rnum >= t * r.rden

\* a mutant of Classify: the boundaries belong to the lower class
ClassifyStrict(r) ==
    IF r.rnum > 70 * r.rden THEN "excellent"
    ELSE IF r.rnum > 50 * r.rden THEN "good"
    ELSE IF r.rnum > 20 * r.rden THEN "fair"
    ELSE IF r.rnum > 5 * r.rden THEN "poor"
    ELSE "trace"

\* lines 288-297: the qualitative class of a ratio
Classify(r) ==
    IF RatioGE(r, 70) THEN "excellent"
    ELSE IF RatioGE(r, 50) THEN "good"
    ELSE IF RatioGE(r, 20) THEN "fair"
    ELSE IF RatioGE(r, 5) THEN "poor"
    ELSE IF ~RatioGE(r, 5) THEN "trace"
    ELSE "unassigned"

\* dict[key] = value
DictSet(d, key, value) ==
    [k \in (DOMAIN d) \cup {key} |-> IF k = key THEN value ELSE d[k]]

NaNEntry == << NaN, NaN, NaN, EmptyStr >>

InitLocals == [analyte |-> Unbound, product_ratio |-> Unbound, yield_ |-> Unbound]

\* the state of an orchestrator's loop
LoopState(l, d, g, e) == [loc |-> l, results |-> d, log |-> g, exc |-> e]

----------------------------------------------------------------------------
(* Analysis.__match_and_quantify: one iteration of the loop, lines 114-134 *)

\* lines 117-121: the analyte after the two mode tests; with a mode that is
\* neither 'yield' nor 'conv' the local keeps what it held before
CrossAnalyte(l, pos, mode, index) ==
    LET a1 == IF mode = "yield" THEN get_product(pos) ELSE l.analyte
    IN  IF mode = "conv" THEN get_substrate(pos, index) ELSE a1

\* a mutant of CrossQuantity: the complement of conversion mode is forgotten
CrossQuantityNoComplement(mode, q) == q

\* lines 128-129: the quantity recorded for the percentage quantify returned
CrossQuantity(mode, q) == IF mode = "conv" THEN 100 - q ELSE q

\* a mutant of CrossEntry: a failed confirmation is recorded as a yield of 0
CrossEntryZero(mode, mz, ri, q, analyte) ==
    IF mz # None /\ ri # None
    THEN << Num(CrossQuantity(mode, q)), Num(mz.rt), Num(ri.rt), analyte >>
    ELSE IF mz # None THEN << Num(0), Num(mz.rt), NaN, analyte >>
    ELSE NaNEntry

\* lines 130-134: the entry for a well, given the MS match, the FID match
\* and the percentage
CrossEntry(mode, mz, ri, q, analyte) ==
    IF mz # None /\ ri # None
    THEN << Num(CrossQuantity(mode, q)), Num(mz.rt), Num(ri.rt), analyte >>
    ELSE NaNEntry

MatchAndQuantifyIter(s, inj, fid, mode, index) ==
    LET pos == inj.pos
        analyte == CrossAnalyte(s.loc, pos, mode, index)
    IN
    IF analyte = Unbound
    THEN \* line 122 reads a local that was never assigned
         LoopState(s.loc, s.results, s.log, "UnboundLocalError")
    ELSE
    LET mz == match_mol(inj, analyte)
        log1 == Append(s.log, [op |-> "match_mol", well |-> pos, ret |-> mz])
        ri == IF mz # None THEN fid.ri_match ELSE None
        log2 == IF mz # None
                THEN Append(log1, [op |-> "match_ri", well |-> pos, ret |-> ri])
                ELSE log1
        quantified == mz # None /\ ri # None
        log3 == IF quantified
                THEN Append(log2, [op |-> "quantify", well |-> pos, ret |-> Num(fid.pct)])
                ELSE log2
        entry == CrossEntry(mode, mz, ri, fid.pct, analyte)
        l1 == [s.loc EXCEPT !.analyte = analyte,
                            !.yield_ = IF quantified THEN entry[1] ELSE @]
    IN  LoopState(l1, DictSet(s.results, pos, entry), log3, "none")

----------------------------------------------------------------------------
(* Analysis.__ms_quantify: one iteration of the loop, lines 254-304 *)

\* lines 267-284: product_ratio after the relative_to branches; when no
\* peak is flagged 'standard' only the notice is printed and the local
\* keeps what it held before
ProductRatio(l, inj, mz, qmode, relative_to) ==
    IF relative_to = "all"
    THEN Ratio(GetAttr(mz, qmode), SumAttr(inj.peaks, qmode))
    ELSE IF relative_to = "standard"
    THEN LET std == FirstStandard(inj.peaks, qmode)
         IN  IF std # None THEN Ratio(GetAttr(mz, qmode), std.num)
             ELSE l.product_ratio
    ELSE l.product_ratio

\* lines 256-262: the analyte of the well, or the error of an unknown mode
MsModeValid(mode) == mode = "yield" \/ mode = "conv"

MsQuantifyIter(s, inj, mode, qmode, relative_to, index) ==
    LET pos == inj.pos IN
    IF ~MsModeValid(mode)
    THEN LoopState(s.loc, s.results, s.log, "ValueError")
    ELSE
    LET analyte == IF mode = "yield" THEN get_product(pos)
                   ELSE get_substrate(pos, index)
        mz == match_mol(inj, analyte)
        log1 == Append(s.log, [op |-> "match_mol", well |-> pos, ret |-> mz])
        l1 == [s.loc EXCEPT !.analyte = analyte]
    IN
    IF mz = None
    THEN LoopState(l1, DictSet(s.results, pos, NaNEntry), log1, "none")
    ELSE
    LET ratio == ProductRatio(s.loc, inj, mz, qmode, relative_to)
        l2 == [l1 EXCEPT !.product_ratio = ratio]
    IN
    IF ratio = Unbound
    THEN \* line 288 reads a local that was never assigned
         LoopState(l2, s.results, log1, "UnboundLocalError")
    ELSE
    LET l3 == [l2 EXCEPT !.yield_ = Label(Classify(ratio))] IN
    IF mode = "conv"
    THEN \* line 300: 100 - yield_ with a string
         LoopState(l3, s.results, log1, "TypeError")
    ELSE LoopState(l3,
                   DictSet(s.results, pos, << l3.yield_, Num(mz.rt), NaN, analyte >>),
                   log1, "none")

RECURSIVE MsQuantify(_, _, _, _, _, _)
\* the whole loop of __ms_quantify from loop state s over the injections
MsQuantify(s, injections, mode, qmode, relative_to, index) ==
    IF injections = << >> \/ s.exc # "none" THEN s
    ELSE MsQuantify(MsQuantifyIter(s, Head(injections), mode, qmode, relative_to, index),
                    Tail(injections), mode, qmode, relative_to, index)

RECURSIVE MatchAndQuantify(_, _, _, _, _)
\* the whole loop of __match_and_quantify from loop state s
MatchAndQuantify(s, injections, fids, mode, index) ==
    IF injections = << >> \/ s.exc # "none" THEN s
    ELSE MatchAndQuantify(
             MatchAndQuantifyIter(s, Head(injections), fids[Head(injections).name],
                                  mode, index),
             Tail(injections), fids, mode, index)

----------------------------------------------------------------------------
(* The plate grid: lines 72-83 and 205-218 *)

Alphabet == << "A", "B", "C", "D", "E", "F", "G", "H", "I", "J", "K", "L", "M",
               "N", "O", "P", "Q", "R", "S", "T", "U", "V", "W", "X", "Y", "Z" >>
Digits == << "0", "1", "2", "3", "4", "5", "6", "7", "8", "9" >>

\* chr(i) for the capital letters
Chr(n) == Alphabet[n - 64]

RECURSIVE Str(_)
\* str(i) for i >= 0
Str(n) == IF n < 10 THEN << Digits[n + 1] >>
          ELSE Append(Str(n \div 10), Digits[(n % 10) + 1])

\* lines 72-73: the fixed frame of the cross-modality plate
FixedIndex == << "A", "B", "C", "D", "E", "F", "G", "H" >>
FixedColumns == << <<"1">>, <<"2">>, <<"3">>, <<"4">>, <<"5">>, <<"6">>,
                   <<"7">>, <<"8">>, <<"9">>, <<"1", "0">>, <<"1", "1">>, <<"1", "2">> >>

\* lines 205-206: rows and columns from layout.array.shape
DynamicIndex(shape) == [r \in 1..shape[1] |-> Chr(64 + r)]
DynamicColumns(shape) == [c \in 1..shape[2] |-> Str(c)]

Range(f) == { f[x] : x \in DOMAIN f }

\* pd.DataFrame(columns=..., index=...): every cell unset
DataFrame(index, columns) ==
    [index |-> index, columns |-> columns,
     cells |-> [rc \in Range(index) \X Range(columns) |-> NaN]]

\* results_df.loc[key[0], key[1:]] = value, for a key inside the frame
LocSet(df, key, value) ==
    [df EXCEPT !.cells = [rc \in DOMAIN df.cells |->
                            IF rc = << Head(key), Tail(key) >> THEN value ELSE df.cells[rc]]]

RECURSIVE FillFrame(_, _, _)
\* lines 77-78 and 212-213: the loop over results_dict.items()
FillFrame(df, d, keys) ==
    IF keys = {} THEN df
    ELSE LET k == CHOOSE x \in keys : TRUE
         IN  FillFrame(LocSet(df, k, d[k]), d, keys \ {k})

IsList(cell) == cell # NaN

\* lines 80-83 and 215-218: np.array over the rows of cells, then the
\* slice [:, :, :-1].  The array is three-dimensional only when every cell
\* holds a list; with no list in it the array is two-dimensional and the
\* slice fails; with lists and unset cells mixed numpy either refuses the
\* ragged nesting (ValueError) or builds a two-dimensional object array on
\* which the slice fails (IndexError), depending on its version.
ArrayOutcomes(df) ==
    IF \A rc \in DOMAIN df.cells : IsList(df.cells[rc]) THEN {"none"}
    ELSE IF \A rc \in DOMAIN df.cells : ~IsList(df.cells[rc]) THEN {"IndexError"}
    ELSE {"ValueError", "IndexError"}

\* the cast of the quantity field: float (line 82) or 'U20' (line 217)
CastQuantity(fn, q) ==
    IF fn = "ms_only" /\ q = NaN THEN Label("nan") ELSE q

\* unstructured_to_structured(results_array[:, :, :-1], dtype)
Structured(fn, df) ==
    [rc \in DOMAIN df.cells |->
        [quantity |-> CastQuantity(fn, df.cells[rc][1]),
         rt_ms |-> df.cells[rc][2], rt_fid |-> df.cells[rc][3]]]

----------------------------------------------------------------------------
(* The calls *)

\* the orders in which up to MaxInj injections of distinct wells may stand
\* in a sequence
WellOrders ==
    { o \in UNION { [1..n -> Wells] : n \in 0..MaxInj } :
        \A a, b \in 1..Len(o) : a # b => o[a] # o[b] }

\* layout.array.shape of the layouts of an MS-only plate
LayoutShapes == { <<3, 12>>, <<8, 12>> }

MsInjection(well, profile) ==
    [name |-> well, pos |-> well, peaks |-> profile.peaks, match |-> profile.match]

PkIdle == [pc |-> "idle"]

AnalysisInit ==
    /\ pc = "idle"
    /\ call = None
    /\ ms_sequence = << >>
    /\ fid_sequence = << >>
    /\ i = 0
    /\ loc = InitLocals
    /\ results_dict = << >>
    /\ log = << >>
    /\ exc = "none"
    /\ results_df = None
    /\ results_array = None
    /\ pk = PkIdle

\* __match_and_quantify_plate, lines 72-75 and line 113: the frame is made
\* and the orchestrator entered.  calc_plate_yield and calc_plate_conv are
\* the calls with mode 'yield' and 'conv'.
CallMatchAndQuantifyPlate ==
    /\ pc = "idle"
    /\ \E mode \in Modes, order \in WellOrders :
       \E index \in (IF mode = "conv" THEN SubstrateIndices ELSE {0}) :
       \E msp \in [1..Len(order) -> CrossMsProfiles],
          fidp \in [1..Len(order) -> FidProfiles] :
          /\ call' = [fn |-> "cross", mode |-> mode, index |-> index,
                      ms_quantification_mode |-> "area", relative_to |-> "standard",
                      shape |-> <<8, 12>>]
          /\ ms_sequence' = [k \in 1..Len(order) |-> MsInjection(order[k], msp[k])]
          /\ fid_sequence' = [w \in Range(order) |->
                                fidp[CHOOSE k \in 1..Len(order) : order[k] = w]]
    /\ results_df' = DataFrame(FixedIndex, FixedColumns)
    /\ pc' = "match_and_quantify"
    /\ i' = 0
    /\ loc' = InitLocals
    /\ results_dict' = << >>
    /\ UNCHANGED <<log, exc, results_array, pk>>

\* __ms_only_quantify_plate, lines 205-210 and line 253.
\* calc_plate_ms_only_yield is the call with 'yield', 'area', 'standard'.
CallMsOnlyQuantifyPlate ==
    /\ pc = "idle"
    /\ \E mode \in Modes, order \in WellOrders, shape \in LayoutShapes,
          qmode \in QuantModes, rel \in RelativeTo :
       \E index \in (IF mode = "conv" THEN SubstrateIndices ELSE {0}) :
       \E msp \in [1..Len(order) -> MsProfiles] :
          /\ call' = [fn |-> "ms_only", mode |-> mode, index |-> index,
                      ms_quantification_mode |-> qmode, relative_to |-> rel,
                      shape |-> shape]
          /\ ms_sequence' = [k \in 1..Len(order) |-> MsInjection(order[k], msp[k])]
          /\ results_df' = DataFrame(DynamicIndex(shape), DynamicColumns(shape))
    /\ fid_sequence' = << >>
    /\ pc' = "ms_quantify"
    /\ i' = 0
    /\ loc' = InitLocals
    /\ results_dict' = << >>
    /\ UNCHANGED <<log, exc, results_array, pk>>

\* the state variables after an iteration that ended in loop state s
AfterIter(s) ==
    /\ loc' = s.loc
    /\ results_dict' = s.results
    /\ log' = s.log
    /\ exc' = s.exc
    /\ i' = IF s.exc = "none" THEN i + 1 ELSE i
    /\ pc' = IF s.exc = "none" THEN pc ELSE "done"
    /\ UNCHANGED <<call, ms_sequence, fid_sequence, results_df, results_array, pk>>

\* one iteration of the loop of __match_and_quantify
MatchAndQuantifyStep ==
    /\ pc = "match_and_quantify"
    /\ i < Len(ms_sequence)
    /\ AfterIter(MatchAndQuantifyIter(LoopState(loc, results_dict, log, exc),
                                      ms_sequence[i + 1],
                                      fid_sequence[ms_sequence[i + 1].name],
                                      call.mode, call.index))

\* one iteration of the loop of __ms_quantify
MsQuantifyStep ==
    /\ pc = "ms_quantify"
    /\ i < Len(ms_sequence)
    /\ AfterIter(MsQuantifyIter(LoopState(loc, results_dict, log, exc),
                                ms_sequence[i + 1], call.mode,
                                call.ms_quantification_mode, call.relative_to,
                                call.index))

\* the orchestrator returns results_dict and the plate function fills the
\* frame and builds the structured array: lines 135, 77-83 and 305, 212-218
AssemblePlate ==
    /\ pc \in {"match_and_quantify", "ms_quantify"}
    /\ i = Len(ms_sequence)
    /\ LET df == FillFrame(results_df, results_dict, DOMAIN results_dict) IN
       /\ results_df' = df
       /\ \E e \in ArrayOutcomes(df) :
            /\ exc' = e
            /\ results_array' = IF e = "none" THEN Structured(call.fn, df) ELSE None
    /\ pc' = "done"
    /\ UNCHANGED <<call, ms_sequence, fid_sequence, i, loc, results_dict, log, pk>>

AnalysisNext ==
    \/ CallMatchAndQuantifyPlate
    \/ CallMsOnlyQuantifyPlate
    \/ MatchAndQuantifyStep
    \/ MsQuantifyStep
    \/ AssemblePlate

SpecAnalysis == AnalysisInit /\ [][AnalysisNext]_vars

----------------------------------------------------------------------------
(* Peak_Detection_MS: scipy.signal.find_peaks as pick_peaks uses it.       *)
(* Sample indices are 0-based as in the code; a signal is a sequence and   *)
(* At(x, k) its sample of index k.  Interpolated positions and border      *)
(* times are exact fractions [n |-> numerator, d |-> denominator], d > 0.  *)
(* Times are counted in units of 0.0001 min.                               *)

At(x, k) == x[k + 1]

Rat(n, d) == [n |-> n, d |-> d]
RatLE(a, b) == a.n * b.d <= b.n * a.d

RECURSIVE SortedSeq(_)
\* the elements of a finite set of integers in ascending order
SortedSeq(S) ==
    IF S = {} THEN << >>
    ELSE LET lo == CHOOSE a \in S : \A b \in S : a <= b
         IN  << lo >> \o SortedSeq(S \ {lo})

\* scipy _local_maxima_1d: the index at which the plateau starting at k
\* ends, i.e. the first index after k that is the last sample or differs
PlateauAhead(x, k) ==
    CHOOSE a \in (k + 1)..(Len(x) - 1) :
        /\ a = Len(x) - 1 \/ At(x, a) # At(x, k)
        /\ \A b \in (k + 1)..(a - 1) : At(x, b) = At(x, k)

\* scipy _local_maxima_1d: the midpoints of the plateaus that rise on the
\* left and fall on the right, in ascending order
LocalMaxima(x) ==
    SortedSeq({ (k + PlateauAhead(x, k) - 1) \div 2 :
                  k \in { j \in 1..(Len(x) - 2) :
                            /\ At(x, j - 1) < At(x, j)
                            /\ At(x, PlateauAhead(x, j)) < At(x, j) } })

RECURSIVE WalkBase(_, _, _, _, _, _)
\* scipy _peak_prominences: the walk from the peak in direction dir (-1 or
\* 1) over the samples not above the peak; the lowest sample and its index
WalkBase(x, peak, k, dir, lowest, base) ==
    IF 0 <= k /\ k <= Len(x) - 1 /\ At(x, k) <= At(x, peak)
    THEN IF At(x, k) < lowest
         THEN WalkBase(x, peak, k + dir, dir, At(x, k), k)
         ELSE WalkBase(x, peak, k + dir, dir, lowest, base)
    ELSE [lowest |-> lowest, base |-> base]

RECURSIVE WalkWidth(_, _, _, _, _)
\* scipy _peak_widths: the walk from the peak towards a base while the
\* signal is above the evaluation height h
WalkWidth(x, k, dir, base, h) ==
    IF (IF dir < 0 THEN base < k ELSE k < base) /\ h < At(x, k)
    THEN WalkWidth(x, k + dir, dir, base, h)
    ELSE k

\* scipy _peak_widths: the position at which the flank crosses the
\* evaluation height h, interpolated between sample k, where the walk
\* stopped, and its neighbour on the peak's side (k - dir)
Crossing(x, k, dir, h) ==
    IF At(x, k) < h
    THEN Rat(k * (At(x, k - dir) - At(x, k)) - dir * (h - At(x, k)),
             At(x, k - dir) - At(x, k))
    ELSE Rat(k, 1)

\* the properties of a peak whose walks found the lowest samples l and r:
\* prominence = height - max(l.lowest, r.lowest), and at rel_height = 1 the
\* evaluation height is height - prominence
WithProminence(x, peak, l, r, prominence) ==
    [index |-> peak, peak_height |-> At(x, peak), prominence |-> prominence,
     left_base |-> l.base, right_base |-> r.base,
     left_ips |-> Crossing(x, WalkWidth(x, peak, -1, l.base, At(x, peak) - prominence),
                           -1, At(x, peak) - prominence),
     right_ips |-> Crossing(x, WalkWidth(x, peak, 1, r.base, At(x, peak) - prominence),
                            1, At(x, peak) - prominence)]

WithBases(x, peak, l, r) ==
    WithProminence(x, peak, l, r,
                   At(x, peak) - (IF l.lowest > r.lowest THEN l.lowest ELSE r.lowest))

\* prominence, bases, and (at rel_height = 1) the interpolated positions at
\* which the peak's flanks cross the evaluation height
PeakProperties(x, peak) ==
    WithBases(x, peak, WalkBase(x, peak, peak, -1, At(x, peak), peak),
              WalkBase(x, peak, peak, 1, At(x, peak), peak))

\* the height and prominence conditions of find_peaks on one peak
KeepIf(pp, cond) ==
    IF /\ (cond.height # None => pp.peak_height >= cond.height.num)
       /\ pp.prominence * cond.prominence.d >= cond.prominence.n
    THEN << pp >> ELSE << >>

RECURSIVE SelectPeaks(_, _, _)
\* the peaks of a sequence of indices that pass the height and the
\* prominence conditions, with their properties
SelectPeaks(x, indices, cond) ==
    IF indices = << >> THEN << >>
    ELSE KeepIf(PeakProperties(x, Head(indices)), cond)
         \o SelectPeaks(x, Tail(indices), cond)

\* find_peaks(x, height=..., prominence=..., width=0, rel_height=1): every
\* width is >= 0, so the width condition removes nothing
find_peaks(x, height, prominence) ==
    SelectPeaks(x, LocalMaxima(x), [height |-> height, prominence |-> prominence])

\* the index of a smallest element of a non-empty sequence
MinIndex(x) == CHOOSE a \in 1..Len(x) : \A b \in 1..Len(x) : x[a] <= x[b]

RemoveAt(x, a) == SubSeq(x, 1, a - 1) \o SubSeq(x, a + 1, Len(x))

RECURSIVE Sorted(_)
\* np.sort
Sorted(x) ==
    IF x = << >> THEN << >>
    ELSE << x[MinIndex(x)] >> \o Sorted(RemoveAt(x, MinIndex(x)))

MiddleOf(sorted) ==
    IF Len(sorted) % 2 = 1 THEN Rat(sorted[(Len(sorted) + 1) \div 2], 1)
    ELSE Rat(sorted[Len(sorted) \div 2] + sorted[(Len(sorted) \div 2) + 1], 2)

\* np.median: the middle sample, or the mean of the two middle samples
Median(x) == MiddleOf(Sorted(x))

Positive(x) == { x[a] : a \in { b \in 1..Len(x) : x[b] > 0 } }

SetMin(S) == CHOOSE a \in S : \A b \in S : a <= b
SetMax(S) == CHOOSE a \in S : \A b \in S : a >= b

\* round(rt, 3): to the nearest multiple of 0.001 min (10 units), a tie to
\* the even multiple
Round3(t) ==
    LET q == t \div 10
        rest == t % 10
    IN  IF rest < 5 THEN 10 * q
        ELSE IF rest > 5 THEN 10 * (q + 1)
        ELSE IF q % 2 = 0 THEN 10 * q ELSE 10 * (q + 1)

\* Utilities.check_interval(value, target, tolerance)
check_interval(value, target, tolerance) ==
    target - tolerance <= value /\ value <= target + tolerance

\* the default of settings.pop('trace_prominence', 220), line 94
TraceProminence == 220
\* the tolerance of line 105
IndexTolerance == 5
\* the factor of the default minimum height, line 60
DefaultHeightFactor == 50

\* time units (0.0001 min) per minute, and the divisor of line 100
UnitsPerMinute == 10000
MsPerMinute == 60000

\* |time[k] - b| for a time b given as a fraction, times b.d
Distance(time, k, b) ==
    IF At(time, k) * b.d >= b.n THEN At(time, k) * b.d - b.n
    ELSE b.n - At(time, k) * b.d

\* the first index at which the time axis is nearest to the time b:
\* (np.abs(time_values - b)).argmin(), lines 161-162
Nearest(time, b) ==
    CHOOSE k \in 0..(Len(time) - 1) :
        /\ \A j \in 0..(Len(time) - 1) : Distance(time, k, b) <= Distance(time, j, b)
        /\ \A j \in 0..(k - 1) : Distance(time, j, b) > Distance(time, k, b)

\* line 71: a border position as a time
BoarderTime(time, scan_rate, ip) == Rat(ip.n * scan_rate + At(time, 0) * ip.d, ip.d)

\* lines 68-75: one detected peak in the units of the chromatogram.  The
\* area is kept as the slice of samples that simpson integrates (line 163).
DetectedPeak(time, scan_rate, pp) ==
    [index |-> pp.index,
     rt |-> At(time, pp.index),
     height |-> pp.peak_height,
     width |-> Rat((pp.right_ips.n * pp.left_ips.d - pp.left_ips.n * pp.right_ips.d)
                     * scan_rate, pp.right_ips.d * pp.left_ips.d),
     boarders |-> << BoarderTime(time, scan_rate, pp.left_ips),
                     BoarderTime(time, scan_rate, pp.right_ips) >>,
     area |-> [start_idx |-> Nearest(time, BoarderTime(time, scan_rate, pp.left_ips)),
               end_idx |-> Nearest(time, BoarderTime(time, scan_rate, pp.right_ips))]]

\* np.min(intensities[intensities > 0]) * 50, or the error of np.min on an
\* empty selection
DefaultHeight(positive) ==
    IF positive = {} THEN [raised |-> "ValueError"]
    ELSE Num(SetMin(positive) * DefaultHeightFactor)

\* settings.pop(key, default): the default is computed before pop looks
\* the setting up, so its error is raised also when the setting is there
Pop(setting, default) ==
    IF default = [raised |-> "ValueError"] THEN default
    ELSE IF setting # None THEN setting
    ELSE default

\* line 60: the minimum height
MinHeight(intensities, settings) ==
    Pop(settings.height, DefaultHeight(Positive(intensities)))

\* line 62: prominence = np.median(intensities) * prominence
Prominence(median, factor) == Rat(median.n * factor, median.d)

\* lines 67-75 over the peaks that find_peaks returned
DetectedPeaks(time, scan_rate, found) ==
    [k \in 1..Len(found) |-> DetectedPeak(time, scan_rate, found[k])]

\* lines 61-76, given the minimum height of line 60
DetectWithHeight(chromatogram, settings, min_height) ==
    IF min_height = [raised |-> "ValueError"]
    THEN [exc |-> "ValueError", detected |-> << >>]
    ELSE [exc |-> "none",
          detected |-> DetectedPeaks(chromatogram.time, settings.scan_rate,
                          find_peaks(chromatogram.intensities, min_height,
                                     Prominence(Median(chromatogram.intensities),
                                                settings.prominence_ms)))]

\* Peak_Detection_MS.__detect_peaks_scipy, lines 57-76
DetectPeaksScipy(chromatogram, settings) ==
    DetectWithHeight(chromatogram, settings,
                     MinHeight(chromatogram.intensities, settings))

\* the retention times of line 100
ScanRts(scans) ==
    [k \in 1..Len(scans.index) |-> (scans.index[k] * UnitsPerMinute) \div MsPerMinute]

\* line 105 with a tolerance one sample narrower
AnyWithinNarrow(found, peak_index) ==
    \E k \in 1..Len(found) :
        check_interval(found[k].index, peak_index, IndexTolerance - 1)

\* lines 104-105: one of the trace's maxima is within the tolerance of the
\* primary peak
AnyWithin(found, peak_index) ==
    \E k \in 1..Len(found) : check_interval(found[k].index, peak_index, IndexTolerance)

\* lines 102-106 for one mass trace and one primary peak: the trace has a
\* local maximum of the trace prominence within the tolerance of the peak
Attributed(trace, peak_index, prominence) ==
    AnyWithin(find_peaks(trace, None, Rat(prominence, 1)), peak_index)

\* the (mass trace, primary peak) pairs for which line 106 runs
Hits(scans, peak_indices, prominence) ==
    { h \in (DOMAIN scans.traces) \X (1..Len(peak_indices)) :
        Attributed(scans.traces[h[1]], peak_indices[h[2]], prominence) }

\* the spectrum that the updates of line 106 leave under the key rt: for
\* each trace the intensity at the index of the last primary peak that was
\* updated under this key
SpectrumAt(scans, peak_indices, rts, hits, rt) ==
    [mz \in { h[1] : h \in { g \in hits : At(rts, peak_indices[g[2]]) = rt } } |->
        At(scans.traces[mz],
           peak_indices[SetMax({ g[2] : g \in { f \in hits :
                                   f[1] = mz /\ At(rts, peak_indices[f[2]]) = rt } })])]

\* lines 96-107, given the pairs for which line 106 runs: a key that line
\* 98 did not create raises KeyError
SpectraFrom(scans, peak_indices, rts, keys, hits) ==
    IF \E h \in hits : At(rts, peak_indices[h[2]]) \notin keys
    THEN [exc |-> "KeyError", spectra |-> << >>]
    ELSE [exc |-> "none",
          spectra |-> [rt \in keys |-> SpectrumAt(scans, peak_indices, rts, hits, rt)]]

\* Peak_Detection_MS.__extract_mass_spectrum, lines 94-107
ExtractMassSpectrum(scans, peak_rts, peak_indices, prominence) ==
    SpectraFrom(scans, peak_indices, ScanRts(scans), Range(peak_rts),
                Hits(scans, peak_indices, prominence))

\* line 135: intensity / max * 100; a maximum of 0 gives NaN (0 / 0)
RelIntensity(intensity, top) == IF top = 0 THEN NaN ELSE Ratio(intensity, top)

\* lines 134-138: the spectrum as (mz, intensity, rel_intensity) triples
MassSpectrum(spectrum) ==
    { << mz, spectrum[mz], RelIntensity(spectrum[mz], SetMax(Range(spectrum))) >> :
        mz \in DOMAIN spectrum }

\* line 139: MS_Peak(rt_min, height, width, boarders, mass_spectrum, area)
MS_Peak(d, mass_spectrum) ==
    [rt |-> Round3(d.rt), height |-> d.height, width |-> d.width,
     boarders |-> d.boarders, mass_spectrum |-> mass_spectrum, area |-> d.area]

RECURSIVE InitializePeaks(_, _, _)
\* Peak_Detection_MS.__initialize_peaks, lines 130-141: the loop from the
\* peaks collected so far over the remaining detected peaks; np.max of the
\* intensities of an empty spectrum raises (line 135)
InitializePeaks(peaks, detected, mass_spectra) ==
    IF detected = << >> THEN [exc |-> "none", peaks |-> peaks]
    ELSE IF DOMAIN mass_spectra[Head(detected).rt] = {}
    THEN [exc |-> "ValueError", peaks |-> peaks]
    ELSE InitializePeaks(
             DictSet(peaks, Round3(Head(detected).rt),
                     MS_Peak(Head(detected),
                             MassSpectrum(mass_spectra[Head(detected).rt]))),
             Tail(detected), mass_spectra)

----------------------------------------------------------------------------
(* pick_peaks: the calls *)

SignalLen == 5

\* intensities: nothing, noise, a peak
Levels == {0, 1, 60}
Signals == [1..SignalLen -> Levels]

\* the time axis: << first sample time, sample spacing >>
TimeAxes == { <<0, 10>>, <<25, 10>>, <<25, 20>> }
TimeAxis(axis) == [k \in 1..SignalLen |-> axis[1] + (k - 1) * axis[2]]

\* analysis_settings.scan_rate
ScanRates == {10, 20}

\* the 'height' setting: absent or configured
Heights == { None, Num(1) }

\* the default of settings.pop('prominence_ms', 1), line 61
DefaultProminenceMs == 1

\* a mass trace: flat, or one spike at a sample
Spike(at) == [k \in 1..SignalLen |-> IF k = at THEN 300 ELSE 0]
Traces == { Spike(at) : at \in 0..SignalLen }

\* the mass traces of the scans: none, or the trace of m/z 50
TraceSets == { << >> } \cup { [mz \in {50} |-> t] : t \in Traces }

PkInit ==
    [pc |-> "idle", chromatogram |-> None, scans |-> None, settings |-> None,
     detected |-> << >>, mass_spectra |-> << >>, peaks |-> None, exc |-> "none"]

PeaksInit ==
    /\ pc = "idle"
    /\ call = None
    /\ ms_sequence = << >>
    /\ fid_sequence = << >>
    /\ i = 0
    /\ loc = InitLocals
    /\ results_dict = << >>
    /\ log = << >>
    /\ exc = "none"
    /\ results_df = None
    /\ results_array = None
    /\ pk = PkInit

\* pick_peaks is called, line 19
CallPickPeaks ==
    /\ pk.pc = "idle"
    /\ \E x \in Signals, axis \in TimeAxes, rate \in ScanRates, h \in Heights,
          traces \in TraceSets :
          pk' = [pk EXCEPT
                   !.pc = "detect",
                   !.chromatogram = [time |-> TimeAxis(axis), intensities |-> x],
                   !.scans = [index |-> [k \in 1..SignalLen |->
                                           (TimeAxis(axis)[k] * MsPerMinute)
                                               \div UnitsPerMinute],
                              traces |-> traces],
                   !.settings = [height |-> h, prominence_ms |-> DefaultProminenceMs,
                                 scan_rate |-> rate,
                                 trace_prominence |-> TraceProminence]]
    /\ UNCHANGED avars

\* the call state after __detect_peaks_scipy returned or raised r
AfterDetect(r) ==
    pk' = [pk EXCEPT !.pc = IF r.exc = "none" THEN "extract" ELSE "done",
                     !.exc = r.exc,
                     !.detected = r.detected]

\* lines 34-35: __detect_peaks_scipy
DetectPeaks ==
    /\ pk.pc = "detect"
    /\ AfterDetect(DetectPeaksScipy(pk.chromatogram, pk.settings))
    /\ UNCHANGED avars

\* the call state after __extract_mass_spectrum returned or raised r
AfterExtract(r) ==
    pk' = [pk EXCEPT !.pc = IF r.exc = "none" THEN "initialize" ELSE "done",
                     !.exc = r.exc,
                     !.mass_spectra = r.spectra]

\* line 37: __extract_mass_spectrum
ExtractSpectra ==
    /\ pk.pc = "extract"
    /\ AfterExtract(ExtractMassSpectrum(
                        pk.scans,
                        [k \in 1..Len(pk.detected) |-> pk.detected[k].rt],
                        [k \in 1..Len(pk.detected) |-> pk.detected[k].index],
                        pk.settings.trace_prominence))
    /\ UNCHANGED avars

\* the call state after __initialize_peaks returned or raised r
AfterInitialize(r) ==
    pk' = [pk EXCEPT !.pc = "done",
                     !.exc = r.exc,
                     !.peaks = IF r.exc = "none" THEN r.peaks ELSE None]

\* lines 38-39: __initialize_peaks and the return
InitializeAndReturn ==
    /\ pk.pc = "initialize"
    /\ AfterInitialize(InitializePeaks(<< >>, pk.detected, pk.mass_spectra))
    /\ UNCHANGED avars

PeaksNext ==
    \/ CallPickPeaks
    \/ DetectPeaks
    \/ ExtractSpectra
    \/ InitializeAndReturn

SpecPeaks == PeaksInit /\ [][PeaksNext]_vars

----------------------------------------------------------------------------
(* pick_peaks on longer runs: scans with enough samples for a mass trace   *)
(* to have a maximum outside the tolerance of line 105                     *)

ScanCount == 9

\* the time axis of the longer runs and their scan rate
ScanAxis == [k \in 1..ScanCount |-> 25 + (k - 1) * 10]
ScanIndex == [k \in 1..ScanCount |-> (ScanAxis[k] * MsPerMinute) \div UnitsPerMinute]

\* the total ion chromatogram: up to two samples that stand out
PrimarySignals ==
    { [k \in 1..ScanCount |-> IF k \in {a, b} THEN 60 ELSE 0] :
        a, b \in 0..ScanCount }

\* a mass trace: up to two samples above the baseline, below (100) or above
\* (300) the default trace prominence
TraceLevels == {0, 100, 300}
SparseTraces ==
    { [k \in 1..ScanCount |-> IF k = a THEN u ELSE IF k = b THEN v ELSE 0] :
        a \in 1..ScanCount, b \in 1..ScanCount, u \in TraceLevels, v \in TraceLevels }

\* the trace of a second channel: one maximum at the third sample
SecondTrace == [k \in 1..ScanCount |-> IF k = 3 THEN 300 ELSE 0]

\* the scans: no channel, m/z 50, or m/z 50 and 51
ScanTraceSets ==
    { << >> }
    \cup { [mz \in {50} |-> t] : t \in SparseTraces }
    \cup { [mz \in {50, 51} |-> IF mz = 50 THEN t ELSE s] :
             t \in SparseTraces, s \in { SecondTrace } }

\* the 'trace_prominence' setting: absent (220), or configured
TraceProminences == { TraceProminence, 50 }

\* pick_peaks is called on a longer run, line 19
CallPickPeaksOnScans ==
    /\ pk.pc = "idle"
    /\ \E x \in PrimarySignals, traces \in ScanTraceSets, p \in TraceProminences :
          pk' = [pk EXCEPT
                   !.pc = "detect",
                   !.chromatogram = [time |-> ScanAxis, intensities |-> x],
                   !.scans = [index |-> ScanIndex, traces |-> traces],
                   !.settings = [height |-> Num(1),
                                 prominence_ms |-> DefaultProminenceMs,
                                 scan_rate |-> 10,
                                 trace_prominence |-> p]]
    /\ UNCHANGED avars

ScansNext ==
    \/ CallPickPeaksOnScans
    \/ DetectPeaks
    \/ ExtractSpectra
    \/ InitializeAndReturn

SpecScans == PeaksInit /\ [][ScansNext]_vars

----------------------------------------------------------------------------
(* Analysis.quantify_analyte, lines 139-164 *)

MaxFid == 2

\* a string attribute, kept as its sequence of characters
Text(chars) == [chars |-> chars]

\* sample names; one of them reads like a plate position
SampleNames == { <<"s", "1">>, <<"A", "1">> }

\* injection.plate_pos: not set, empty, or a plate position
PlatePositions == { None, Text(<< >>), Text(<<"A", "1">>), Text(<<"B", "1", "2">>) }

\* what flag_peak finds in an injection and what quantify gives for it
FlagProfiles ==
    { [flagged |-> None, pct |-> 0] } \cup
    { [flagged |-> [rt |-> 6], pct |-> q] : q \in {0, 30} }

\* an injection of the FID sequence
FidInjections ==
    { [sample_name |-> n, plate_pos |-> p, flagged |-> f.flagged, pct |-> f.pct] :
        n \in SampleNames, p \in PlatePositions, f \in FlagProfiles }

\* fid_sequence.injections.values(), in the order of the mapping
FidRuns == UNION { [1..n -> FidInjections] : n \in 0..MaxFid }

\* the analyte argument: the default None, or an analyte
AnalyteArgs == { None, Label("P") }

\* the truth value of an object or None (line 156) and of a string or None
\* (line 160)
Truthy(value) ==
    /\ value # None
    /\ value # Text(<< >>)

\* lines 160-163, the key with the sample name in every case
SampleNameKey(injection) == injection.sample_name

\* lines 160-163: the key under which the injection is entered
YieldKey(injection) ==
    IF Truthy(injection.plate_pos) THEN injection.plate_pos.chars
    ELSE injection.sample_name

\* lines 155-157: the calls made for the k-th injection
YieldCalls(injection, k, rt, analyte) ==
    << [op |-> "flag_peak", inj |-> k, arg |-> << Num(rt), analyte >>,
        ret |-> injection.flagged] >>
    \o IF Truthy(injection.flagged)
       THEN << [op |-> "quantify", inj |-> k, arg |-> << Num(injection.flagged.rt) >>,
                ret |-> Num(injection.pct)] >>
       ELSE << >>

\* lines 156-159: yield_
YieldOf(injection) ==
    IF Truthy(injection.flagged) THEN Num(injection.pct) ELSE Num(0)

QuantifyAnalyteInit ==
    /\ pc = "idle"
    /\ call = None
    /\ ms_sequence = << >>
    /\ fid_sequence = << >>
    /\ i = 0
    /\ loc = InitLocals
    /\ results_dict = << >>
    /\ log = << >>
    /\ exc = "none"
    /\ results_df = None
    /\ results_array = None
    /\ pk = PkIdle

\* quantify_analyte is called, line 139; yield_dict = {} (line 153)
CallQuantifyAnalyte ==
    /\ pc = "idle"
    /\ \E run \in FidRuns, analyte \in AnalyteArgs :
          /\ fid_sequence' = run
          /\ call' = [fn |-> "quantify_analyte", rt |-> 5, analyte |-> analyte]
    /\ pc' = "quantify_analyte"
    /\ i' = 0
    /\ results_dict' = << >>
    /\ log' = << >>
    /\ UNCHANGED <<ms_sequence, loc, exc, results_df, results_array, pk>>

\* lines 154-163: the loop body for the next injection
QuantifyAnalyteStep ==
    /\ pc = "quantify_analyte"
    /\ i < Len(fid_sequence)
    /\ i' = i + 1
    /\ log' = log \o YieldCalls(fid_sequence[i + 1], i + 1, call.rt, call.analyte)
    /\ results_dict' = DictSet(results_dict, YieldKey(fid_sequence[i + 1]),
                               YieldOf(fid_sequence[i + 1]))
    /\ UNCHANGED <<pc, call, ms_sequence, fid_sequence, loc, exc, results_df,
                   results_array, pk>>

\* line 164: return yield_dict
ReturnYieldDict ==
    /\ pc = "quantify_analyte"
    /\ i = Len(fid_sequence)
    /\ pc' = "done"
    /\ UNCHANGED <<call, ms_sequence, fid_sequence, i, loc, results_dict, log, exc,
                   results_df, results_array, pk>>

QuantifyAnalyteNext ==
    \/ CallQuantifyAnalyte
    \/ QuantifyAnalyteStep
    \/ ReturnYieldDict

SpecQuantifyAnalyte == QuantifyAnalyteInit /\ [][QuantifyAnalyteNext]_vars

----------------------------------------------------------------------------
(* The classification of lines 288-297 on its own, over a dense set of     *)
(* ratios: num/den for den up to MaxRden, from 0 to a little over 100      *)

MaxRden == 2

RatioInputs ==
    { [rnum |-> n, rden |-> d] : n \in 0..(110 * MaxRden), d \in 1..MaxRden }

ClassifyInit ==
    /\ pc = "classify"
    /\ call = None
    /\ ms_sequence = << >>
    /\ fid_sequence = << >>
    /\ i = 0
    /\ \E r \in RatioInputs : loc = [InitLocals EXCEPT !.product_ratio = r]
    /\ results_dict = << >>
    /\ log = << >>
    /\ exc = "none"
    /\ results_df = None
    /\ results_array = None
    /\ pk = PkIdle

\* lines 288-297 applied to product_ratio
ClassifyRatio ==
    /\ pc = "classify"
    /\ loc' = [loc EXCEPT !.yield_ = Label(Classify(loc.product_ratio))]
    /\ pc' = "classified"
    /\ UNCHANGED <<call, ms_sequence, fid_sequence, i, results_dict, log, exc,
                   results_df, results_array, pk>>

SpecClassify == ClassifyInit /\ [][ClassifyRatio]_vars

----------------------------------------------------------------------------
(* Claims about the orchestrators *)

Processed == { ms_sequence[k] : k \in 1..i }

\* the orchestrator's loop ran over every injection and returned
OrchestratorReturned == pc \in {"match_and_quantify", "ms_quantify", "done"}
                        /\ i = Len(ms_sequence)

HasStandard(inj) == \E k \in 1..Len(inj.peaks) : inj.peaks[k].flag = "standard"

\* a well of an MS-only plate whose analyte is matched and whose injection
\* has no peak flagged 'standard'
MissingStandard(inj) == inj.match # 0 /\ ~HasStandard(inj)

\* C1: in MS-only quantification relative to the standard (yield mode), a
\* matched well without a standard peak gets no entry in the result
\* dictionary, the orchestrator does not raise on it, and every other well
\* is still resolved: every processed well has an entry exactly when it is
\* not such a well, and no well is left unprocessed by an exception.
C1_MissingStandardOmitted ==
    (pc # "idle" /\ call.fn = "ms_only" /\ call.relative_to = "standard"
        /\ call.mode = "yield")
    => /\ exc # "UnboundLocalError"
       /\ \A inj \in Processed :
            (inj.pos \in DOMAIN results_dict) <=> ~MissingStandard(inj)

\* C2: a well whose match_mol returned nothing, or (cross-modality) whose
\* match_ri returned nothing, has the result (NaN, NaN, NaN, "") and
\* quantify was not called for it, whatever the orchestrator and the mode.
C2_NoMatchIsNaN ==
    \A k \in 1..Len(log) :
        (log[k].op \in {"match_mol", "match_ri"} /\ log[k].ret = None)
        => /\ log[k].well \in DOMAIN results_dict
           /\ results_dict[log[k].well] = NaNEntry
           /\ \A j \in 1..Len(log) :
                ~(log[j].op = "quantify" /\ log[j].well = log[k].well)

\* C2 witness: a conversion-mode cross-modality plate with one well without
\* an MS match and one whose FID confirmation failed, both recorded
C2_Witness ==
    /\ pc = "done" /\ call.fn = "cross" /\ call.mode = "conv"
    /\ \E k \in 1..Len(log) : log[k].op = "match_mol" /\ log[k].ret = None
    /\ \E k \in 1..Len(log) : log[k].op = "match_ri" /\ log[k].ret = None
    /\ \A w \in DOMAIN results_dict : results_dict[w] = NaNEntry
    /\ Cardinality(DOMAIN results_dict) = 2

\* C3: in cross-modality quantification a well with an MS match and an FID
\* confirmation is recorded as (q, rt of the MS match, rt of the FID match,
\* analyte) in yield mode and with 100 - q for q in conversion mode, q being
\* the percentage quantify returned; the analyte is the well's product in
\* yield mode and its substrate at the given index in conversion mode.
C3_ConversionIsComplement ==
    (pc # "idle" /\ call.fn = "cross") =>
    \A inj \in Processed :
        LET fid == fid_sequence[inj.name] IN
        (inj.match # 0 /\ fid.ri_match # None) =>
            /\ call.mode = "yield" =>
                 results_dict[inj.pos] =
                    << Num(fid.pct), Num(inj.peaks[inj.match].rt),
                       Num(fid.ri_match.rt), get_product(inj.pos) >>
            /\ call.mode = "conv" =>
                 results_dict[inj.pos] =
                    << Num(100 - fid.pct), Num(inj.peaks[inj.match].rt),
                       Num(fid.ri_match.rt), get_substrate(inj.pos, call.index) >>

\* C3 witness: a conversion-mode plate on which a well quantified as 30
\* is recorded with 70
C3_Witness ==
    /\ pc = "done" /\ call.fn = "cross" /\ call.mode = "conv"
    /\ \E inj \in Processed :
         /\ inj.match # 0
         /\ fid_sequence[inj.name].ri_match # None
         /\ fid_sequence[inj.name].pct = 30
         /\ results_dict[inj.pos][1] = Num(70)

\* C4: every ratio in [0, 100] gets exactly the label of its interval:
\* trace below 5, poor in [5, 20), fair in [20, 50), good in [50, 70),
\* excellent from 70 on; each boundary belongs to the higher class.
C4_ClassificationPartition ==
    pc = "classified" =>
    LET r == loc.product_ratio
        lt(t) == r.rnum < t * r.rden
        ge(t) == r.rnum >= t * r.rden
        y == loc.yield_
    IN  (ge(0) /\ r.rnum <= 100 * r.rden) =>
            /\ lt(5) <=> y = Label("trace")
            /\ (ge(5) /\ lt(20)) <=> y = Label("poor")
            /\ (ge(20) /\ lt(50)) <=> y = Label("fair")
            /\ (ge(50) /\ lt(70)) <=> y = Label("good")
            /\ ge(70) <=> y = Label("excellent")

\* C4 witness: the ratio 70 exactly is classified excellent
C4_Witness ==
    /\ pc = "classified"
    /\ loc.product_ratio.rnum = 70 * loc.product_ratio.rden
    /\ loc.yield_ = Label("excellent")

\* the permutations of a sequence
Reorderings(seq) ==
    { [k \in 1..Len(seq) |-> seq[p[k]]] :
        p \in { q \in [1..Len(seq) -> 1..Len(seq)] :
                  \A a, b \in 1..Len(seq) : a # b => q[a] # q[b] } }

\* the orchestrator of the running call, run over the injections in the
\* given order
RunOrchestrator(injections) ==
    IF call.fn = "cross"
    THEN MatchAndQuantify(LoopState(InitLocals, << >>, << >>, "none"), injections,
                          fid_sequence, call.mode, call.index)
    ELSE MsQuantify(LoopState(InitLocals, << >>, << >>, "none"), injections,
                    call.mode, call.ms_quantification_mode, call.relative_to,
                    call.index)

\* C5: each well is resolved on its own: when the orchestrator has returned
\* a result dictionary, it returns the same dictionary for every other
\* order of the same injections (their plate positions are distinct).
C5_OrderIndependent ==
    (pc # "idle" /\ OrchestratorReturned) =>
    \A perm \in Reorderings(ms_sequence) :
        /\ RunOrchestrator(perm).exc = "none"
        /\ RunOrchestrator(perm).results = results_dict

\* the plate's rows and columns as the claim gives them
PlateRows == IF call.fn = "cross" THEN 8 ELSE call.shape[1]
PlateColumns == IF call.fn = "cross" THEN 12 ELSE call.shape[2]

\* C6: whatever result dictionary the orchestrator returned (here: one with
\* at least one entry), also one that covers only some of the wells, the
\* plate computation completes with a grid of the plate's dimensions in which the
\* cell of a well holds (quantity, rt_ms, rt_fid) of the well's entry and
\* the cell of a well without an entry is unset.
C6_GridFromAnyDictionary ==
    (pc = "done" /\ OrchestratorReturned /\ results_dict # << >>) =>
    /\ exc = "none"
    /\ results_array # None
    /\ Cardinality(DOMAIN results_array) = PlateRows * PlateColumns
    /\ \A w \in DOMAIN results_dict :
         /\ << Head(w), Tail(w) >> \in DOMAIN results_array
         /\ results_array[<< Head(w), Tail(w) >>] =
              [quantity |-> CastQuantity(call.fn, results_dict[w][1]), rt_ms |-> results_dict[w][2],
               rt_fid |-> results_dict[w][3]]
    /\ \A rc \in DOMAIN results_array :
         (\A w \in DOMAIN results_dict : rc # << Head(w), Tail(w) >>)
         => results_array[rc].rt_ms = NaN

\* C7: a call with a mode other than 'yield' and 'conv' (here: on a
\* sequence with at least one injection) ends in the configuration error
\* (ValueError) before any analyte is matched and before any result is
\* recorded, and returns nothing.
C7_InvalidModeRaises ==
    (pc # "idle" /\ ~MsModeValid(call.mode) /\ Len(ms_sequence) > 0) =>
    /\ log = << >>
    /\ results_dict = << >>
    /\ results_array = None
    /\ pc = "done" => exc = "ValueError"

----------------------------------------------------------------------------
(* Claims about pick_peaks *)

\* the detected peak has an entry in the spectra and the entry is empty
EmptySpectrum(d) ==
    d.rt \in DOMAIN pk.mass_spectra /\ DOMAIN pk.mass_spectra[d.rt] = {}

\* the peak built for the detected peak d is in the collection returned
Created(d) ==
    /\ pk.exc = "none"
    /\ pk.peaks # None
    /\ Round3(d.rt) \in DOMAIN pk.peaks

\* C8: when pick_peaks has ended, every primary peak has been created and
\* inserted under its (rounded) retention time, also a peak whose mass
\* spectrum is empty, and that peak has an empty set of (m/z, intensity,
\* relative intensity) triples; the construction does not raise.
C8_EmptySpectrumPeakCreated ==
    pk.pc = "done" =>
    \A k \in 1..Len(pk.detected) :
        (\E j \in 1..Len(pk.detected) : EmptySpectrum(pk.detected[j]))
        => /\ Created(pk.detected[k])
           /\ EmptySpectrum(pk.detected[k])
                => pk.peaks[Round3(pk.detected[k].rt)].mass_spectrum = {}

\* C9: every detected peak lies between its borders:
\* left_border_time <= retention_time <= right_border_time.
C9_BordersBracketPeak ==
    \A k \in 1..Len(pk.detected) :
        /\ RatLE(pk.detected[k].boarders[1], Rat(pk.detected[k].rt, 1))
        /\ RatLE(Rat(pk.detected[k].rt, 1), pk.detected[k].boarders[2])

\* the minimum height the claim names: the 'height' setting, or 50 times
\* the smallest strictly positive intensity
NamedThreshold ==
    IF pk.settings.height # None THEN pk.settings.height.num
    ELSE DefaultHeightFactor * SetMin(Positive(pk.chromatogram.intensities))

\* no sample reaches the minimum height; a signal without a strictly
\* positive sample has none either
NothingAboveThreshold ==
    \/ Positive(pk.chromatogram.intensities) = {}
    \/ \A a \in 1..Len(pk.chromatogram.intensities) :
           pk.chromatogram.intensities[a] < NamedThreshold

\* C10: for a signal in which no sample reaches the minimum height,
\* pick_peaks returns an empty peak collection and does not raise, also
\* when the signal has no strictly positive sample.
C10_NoPeakAboveThreshold ==
    (pk.pc = "done" /\ NothingAboveThreshold) =>
        /\ pk.exc = "none"
        /\ pk.peaks = << >>

----------------------------------------------------------------------------
(* Claims about the mass-channel correlator *)

\* the samples l..r of x are a maximum: equal, and higher than the sample
\* on either side
IsPlateau(x, l, r) ==
    /\ \A k \in l..r : At(x, k) = At(x, l)
    /\ At(x, l - 1) < At(x, l)
    /\ At(x, r + 1) < At(x, r)

\* c is the index of a local maximum of x (the middle of its plateau)
IsLocalMaximum(x, c) ==
    \E l \in 1..c, r \in c..(Len(x) - 2) :
        IsPlateau(x, l, r) /\ c = (l + r) \div 2

\* the lowest sample between the maximum at c and the nearest higher sample
\* in the direction dir (-1 left, 1 right), or the end of the signal
LowestBeside(x, c, dir) ==
    SetMin({ At(x, j) : j \in { k \in 0..(Len(x) - 1) :
        /\ (k - c) * dir >= 0
        /\ \A h \in 0..(Len(x) - 1) :
              ((h - c) * dir > 0 /\ (k - h) * dir >= 0) => At(x, h) <= At(x, c) } })

\* how far the maximum at c stands out of the higher of its two bases
StandsOut(x, c) ==
    At(x, c) - (IF LowestBeside(x, c, -1) >= LowestBeside(x, c, 1)
                THEN LowestBeside(x, c, -1) ELSE LowestBeside(x, c, 1))

\* the channel x has a local maximum of at least the prominence within 5
\* samples of the index p
ChannelMaximumNear(x, p, prominence) ==
    \E c \in 0..(Len(x) - 1) :
        /\ IsLocalMaximum(x, c)
        /\ StandsOut(x, c) >= prominence
        /\ c - p <= 5
        /\ p - c <= 5

\* __extract_mass_spectrum has returned
Correlated == pk.pc = "initialize"

\* C11: the correlator does not fail on a key, and when it has returned,
\* the mapping has exactly one spectrum per primary peak retention time; a
\* channel is in the spectrum of a primary peak exactly when the channel has
\* a local maximum of the trace prominence within 5 samples of the peak's
\* index, and the value stored for it is the channel's intensity at the
\* peak's index.
C11_ChannelAttribution ==
    /\ pk.exc # "KeyError"
    /\ Correlated =>
        /\ DOMAIN pk.mass_spectra = { pk.detected[k].rt : k \in 1..Len(pk.detected) }
        /\ Cardinality(DOMAIN pk.mass_spectra) = Len(pk.detected)
        /\ \A k \in 1..Len(pk.detected), mz \in DOMAIN pk.scans.traces :
             /\ mz \in DOMAIN pk.mass_spectra[pk.detected[k].rt]
                  <=> ChannelMaximumNear(pk.scans.traces[mz], pk.detected[k].index,
                                         pk.settings.trace_prominence)
             /\ mz \in DOMAIN pk.mass_spectra[pk.detected[k].rt]
                  => pk.mass_spectra[pk.detected[k].rt][mz]
                       = At(pk.scans.traces[mz], pk.detected[k].index)

\* C11 witness: two primary peaks and a channel whose maximum (300) is 6
\* samples after the first peak and within 5 samples of the second: the
\* channel is not in the first peak's spectrum, and it is in the second's
\* with its intensity at that peak's index (0, not the 300 of the maximum)
C11_Witness ==
    /\ Correlated
    /\ Len(pk.detected) = 2
    /\ pk.settings.trace_prominence = TraceProminence
    /\ DOMAIN pk.scans.traces = {50}
    /\ pk.detected[1].index + 6 < Len(pk.scans.traces[50])
    /\ At(pk.scans.traces[50], pk.detected[1].index + 6) = 300
    /\ pk.detected[2].index < pk.detected[1].index + 6
    /\ pk.mass_spectra[pk.detected[1].rt] = << >>
    /\ DOMAIN pk.mass_spectra[pk.detected[2].rt] = {50}
    /\ pk.mass_spectra[pk.detected[2].rt][50] = 0

----------------------------------------------------------------------------
(* Claims about quantify_analyte *)

\* the key the claim gives an injection: its plate position when it has
\* one, its sample name otherwise
ClaimedKey(injection) ==
    IF injection.plate_pos \in { None, Text(<< >>) } THEN injection.sample_name
    ELSE injection.plate_pos.chars

\* the value the claim gives an injection
ClaimedValue(injection) ==
    IF injection.flagged = None THEN Num(0) ELSE Num(injection.pct)

DistinctKeys ==
    \A a, b \in 1..Len(fid_sequence) :
        a # b => ClaimedKey(fid_sequence[a]) # ClaimedKey(fid_sequence[b])

QuantifyAnalyteReturned == pc = "done" /\ call.fn = "quantify_analyte"

\* C12: when quantify_analyte has returned, the keys of the result are the
\* keys of the injections (plate position, else sample name) and every
\* entry is the value of an injection with that key: quantify(peak.rt) when
\* flag_peak found a peak, 0 when not; flag_peak was called once for every
\* injection with (rt, analyte) and quantify only for injections with a
\* flagged peak, with the peak's rt; with pairwise distinct keys every
\* injection has its own value and there are as many entries as injections.
C12_OneEntryPerInjection ==
    QuantifyAnalyteReturned =>
    /\ DOMAIN results_dict = { ClaimedKey(fid_sequence[k]) : k \in 1..Len(fid_sequence) }
    /\ \A key \in DOMAIN results_dict :
         \E k \in 1..Len(fid_sequence) :
            /\ ClaimedKey(fid_sequence[k]) = key
            /\ results_dict[key] = ClaimedValue(fid_sequence[k])
    /\ \A k \in 1..Len(fid_sequence) :
         /\ Cardinality({ n \in 1..Len(log) :
                log[n].op = "flag_peak" /\ log[n].inj = k
                /\ log[n].arg = << Num(call.rt), call.analyte >> }) = 1
         /\ Cardinality({ n \in 1..Len(log) : log[n].op = "quantify" /\ log[n].inj = k })
              = IF fid_sequence[k].flagged = None THEN 0 ELSE 1
         /\ \A n \in 1..Len(log) :
              (log[n].op = "quantify" /\ log[n].inj = k)
              => log[n].arg = << Num(fid_sequence[k].flagged.rt) >>
    /\ DistinctKeys =>
         /\ Cardinality(DOMAIN results_dict) = Len(fid_sequence)
         /\ \A k \in 1..Len(fid_sequence) :
              results_dict[ClaimedKey(fid_sequence[k])] = ClaimedValue(fid_sequence[k])

\* C12 witness: a returned call over two injections, one with a plate
\* position and a flagged peak quantified as 30, one without a plate
\* position and without a flagged peak, entered under its sample name as 0
C12_Witness ==
    /\ QuantifyAnalyteReturned
    /\ Len(fid_sequence) = 2
    /\ fid_sequence[1].plate_pos = Text(<<"B", "1", "2">>)
    /\ fid_sequence[1].flagged # None
    /\ fid_sequence[2].plate_pos = None
    /\ fid_sequence[2].sample_name = <<"s", "1">>
    /\ fid_sequence[2].flagged = None
    /\ results_dict = (<<"B", "1", "2">> :> Num(30)) @@ (<<"s", "1">> :> Num(0))

====
